---- MODULE Spec2Model ----
(***************************************************************************)
(* DocuMind: the upload handler (core/views.py: dashboard), the PDF text   *)
(* extractor and the study material generator (core/utils.py).             *)
(*                                                                         *)
(* Python values are records tagged with their type t.  Texts    *)
(* the extractor works on (page texts, file names) are sequences of one    *)
(* character strings, so that strip(), lower(), endswith() and join() are  *)
(* computed; JSON bodies are sequences of lexical tokens, parsed by Loads. *)
(***************************************************************************)
EXTENDS Integers, Sequences, FiniteSets, TLC

\* ------------------------------------------------------------------ bounds
MaxNameLen == 4
MaxPages == 2
MaxTextLen == 2
MaxListLen == 1

\* ----------------------------------------------------------- python values
\* one record shape for every value: the field its type names holds the payload
Py(t, s, n, b, i, m) == [t |-> t, str |-> s, int |-> n, bool |-> b, items |-> i, map |-> m]
PyNone == Py("none", "", 0, FALSE, <<>>, <<>>)
PyStr(s) == Py("str", s, 0, FALSE, <<>>, <<>>)
PyInt(n) == Py("int", "", n, FALSE, <<>>, <<>>)
PyBool(b) == Py("bool", "", 0, b, <<>>, <<>>)
PyList(s) == Py("list", "", 0, FALSE, s, <<>>)
PyDict(f) == Py("dict", "", 0, FALSE, <<>>, f)
EmptyDict == PyDict(<<>>)

\* all sequences over S of length 0..n
SeqsUpTo(S, n) == UNION {[1..k -> S] : k \in 0..n}

\* --------------------------------------------------------------- exceptions
\* an error of a library, and an error raised by this code with its cause
LibError(type, msg, model) == [type |-> type, msg |-> msg, model |-> model]
NoCause == LibError("none", "", "")
Raise(type, msg, cause) == [type |-> type, msg |-> msg, cause |-> cause, raised |-> TRUE]
NoExc == [type |-> "none", msg |-> "", cause |-> NoCause, raised |-> FALSE]

ReadErrorMsg == "Could not read PDF file. It may be corrupt or not a valid PDF."
EmptyContentMsg == "No extractable text was found in the PDF."
ConfigurationMsg == "GEMINI_API_KEY is not set in the environment."
GenerationMsg == "All Gemini model attempts failed. Please check your quota, region, or model access."
EmptyResponseMsg == "Gemini returned an empty response."
MalformedMsg == "Gemini did not return valid JSON."
NoFileMsg == "Please upload a PDF file."
NotPdfMsg == "Only PDF files are supported."
FallbackMsg == "Something went wrong while processing the PDF."

\* ================================================================ extractor
Whitespace == {" ", "\n"}
TextChars == {" ", "a", "b"}
PageTexts == SeqsUpTo(TextChars, MaxTextLen)

\* what page.extract_text() does for one page: raises, returns None, or text
PageOutcomes == {[kind |-> "raises"], [kind |-> "none"]}
                  \cup {[kind |-> "text", text |-> s] : s \in PageTexts}

\* what pdfplumber.open() does with the stream: raises, or a page list
Documents == {[ok |-> FALSE]}
               \cup {[ok |-> TRUE, pages |-> p] : p \in SeqsUpTo(PageOutcomes, MaxPages)}

RECURSIVE LStrip(_)
LStrip(s) == IF s = <<>> THEN <<>>
             ELSE IF Head(s) \in Whitespace THEN LStrip(Tail(s)) ELSE s

RECURSIVE RStrip(_)
RStrip(s) == IF s = <<>> THEN <<>>
             ELSE IF s[Len(s)] \in Whitespace THEN RStrip(SubSeq(s, 1, Len(s) - 1)) ELSE s

\* a strip() that was left out
StripNothing(s) == s

\* str.strip()
Strip(s) == RStrip(LStrip(s))

\* page.extract_text() or ""
TextOrEmpty(o) == IF o.kind = "text" THEN o.text ELSE <<>>

\* a join with a newline where the blank line should be
RECURSIVE JoinSingleNewline(_)
JoinSingleNewline(chunks) ==
    IF chunks = <<>> THEN <<>>
    ELSE IF Len(chunks) = 1 THEN chunks[1]
    ELSE chunks[1] \o <<"\n">> \o JoinSingleNewline(Tail(chunks))

\* "\n\n".join(chunks)
RECURSIVE Join(_)
Join(chunks) == IF chunks = <<>> THEN <<>>
                ELSE IF Len(chunks) = 1 THEN chunks[1]
                ELSE chunks[1] \o <<"\n", "\n">> \o Join(Tail(chunks))

VARIABLES pc, request, pdf, api_key, context, exc, text, text_chunks, page_no,
          response, last_error, study_material, calls, invoked, sent, rendered

vars == <<pc, request, pdf, api_key, context, exc, text, text_chunks, page_no,
          response, last_error, study_material, calls, invoked, sent, rendered>>

viewVars == <<request, context, rendered>>
extractVars == <<pdf, text, text_chunks, page_no>>
generateVars == <<api_key, response, last_error, study_material, calls, sent>>

\* extract_text_from_pdf, lines 20-24: text_chunks = [], pdfplumber.open
ExtractOpen(documents) ==
    /\ pc = "extract_open"
    /\ text_chunks' = <<>>
    /\ page_no' = 1
    /\ invoked' = invoked \cup {"extractor"}
    /\ \E d \in documents :
         /\ pdf' = d
         /\ IF d.ok
              THEN /\ pc' = "extract_pages"
                   /\ exc' = exc
              ELSE /\ pc' = "extract_raised"
                   /\ exc' = Raise("ValueError", ReadErrorMsg, LibError("PDFSyntaxError", "", ""))
    /\ UNCHANGED <<viewVars, generateVars, text>>

\* a page loop without the inner try: a failing page ends up in the outer except
ExtractPageAborts ==
    /\ pc = "extract_pages"
    /\ page_no <= Len(pdf.pages)
    /\ LET page == pdf.pages[page_no]
           cleaned == Strip(TextOrEmpty(page))
       IN  IF page.kind = "raises"
             THEN /\ pc' = "extract_raised"
                  /\ exc' = Raise("ValueError", ReadErrorMsg, LibError("PDFSyntaxError", "", ""))
                  /\ UNCHANGED <<text_chunks, page_no>>
             ELSE /\ text_chunks' = IF cleaned = <<>> THEN text_chunks ELSE Append(text_chunks, cleaned)
                  /\ page_no' = page_no + 1
                  /\ UNCHANGED <<pc, exc>>
    /\ UNCHANGED <<invoked, viewVars, generateVars, pdf, text>>

\* lines 25-34: one iteration of the page loop
ExtractPage ==
    /\ pc = "extract_pages"
    /\ page_no <= Len(pdf.pages)
    /\ LET page == pdf.pages[page_no]
           cleaned == Strip(TextOrEmpty(page))
       IN  text_chunks' = IF page.kind = "raises" \/ cleaned = <<>>
                            THEN text_chunks
                            ELSE Append(text_chunks, cleaned)
    /\ page_no' = page_no + 1
    /\ UNCHANGED <<pc, exc, invoked, viewVars, generateVars, pdf, text>>

\* lines 38-41: after the loop
ExtractFinish ==
    /\ pc = "extract_pages"
    /\ page_no > Len(pdf.pages)
    /\ IF text_chunks = <<>>
         THEN /\ pc' = "extract_raised"
              /\ exc' = Raise("ValueError", EmptyContentMsg, NoCause)
              /\ text' = text
         ELSE /\ pc' = "extract_returned"
              /\ exc' = exc
              /\ text' = Join(text_chunks)
    /\ UNCHANGED <<invoked, viewVars, generateVars, pdf, text_chunks, page_no>>

\* ================================================================ generator
\* ---- the response body: a sequence of JSON tokens
Punct(c) == [kind |-> "punct", lexeme |-> c, number |-> 0]
StrTok(s) == [kind |-> "string", lexeme |-> s, number |-> 0]
NumTok(n) == [kind |-> "number", lexeme |-> "", number |-> n]
LitTok(w) == [kind |-> "literal", lexeme |-> w, number |-> 0]
FenceTok == [kind |-> "garbage", lexeme |-> "markdown fence", number |-> 0]

ParseFail == [ok |-> FALSE]
ParseOk(val, rest) == [ok |-> TRUE, val |-> val, rest |-> rest]

\* a dict is its items in insertion order, each <<key, value>>
\* key in d
Has(d, key) == \E i \in 1..Len(d) : d[i][1] = key

\* d[key]
Lookup(d, key) == d[CHOOSE i \in 1..Len(d) : d[i][1] = key][2]

\* d[key] = val: a key the dict has keeps its place
DictSet(d, key, val) ==
    IF Has(d, key)
      THEN [i \in 1..Len(d) |-> IF d[i][1] = key THEN <<key, val>> ELSE d[i]]
      ELSE Append(d, <<key, val>>)

RECURSIVE ParseValue(_), ParseElements(_, _), ParseMembers(_, _)

\* one JSON value at the front of toks
ParseValue(toks) ==
    IF toks = <<>> THEN ParseFail
    ELSE LET h == Head(toks)
             r == Tail(toks)
         IN  CASE h.kind = "string" -> ParseOk(PyStr(h.lexeme), r)
               [] h.kind = "number" -> ParseOk(PyInt(h.number), r)
               [] h.kind = "literal" ->
                    ParseOk(IF h.lexeme = "null" THEN PyNone ELSE PyBool(h.lexeme = "true"), r)
               [] h = Punct("[") ->
                    IF r # <<>> /\ Head(r) = Punct("]")
                      THEN ParseOk(PyList(<<>>), Tail(r))
                      ELSE ParseElements(r, <<>>)
               [] h = Punct("{") ->
                    IF r # <<>> /\ Head(r) = Punct("}")
                      THEN ParseOk(EmptyDict, Tail(r))
                      ELSE ParseMembers(r, EmptyDict.map)
               [] OTHER -> ParseFail

\* the elements of an array, up to its closing bracket
ParseElements(toks, acc) ==
    LET e == ParseValue(toks)
    IN  IF ~e.ok \/ e.rest = <<>> THEN ParseFail
        ELSE IF Head(e.rest) = Punct(",") THEN ParseElements(Tail(e.rest), Append(acc, e.val))
        ELSE IF Head(e.rest) = Punct("]") THEN ParseOk(PyList(Append(acc, e.val)), Tail(e.rest))
        ELSE ParseFail

\* the members of an object, up to its closing brace; a repeated key keeps the last value
ParseMembers(toks, acc) ==
    IF Len(toks) < 2 \/ toks[1].kind # "string" \/ toks[2] # Punct(":") THEN ParseFail
    ELSE LET e == ParseValue(SubSeq(toks, 3, Len(toks)))
         IN  IF ~e.ok \/ e.rest = <<>> THEN ParseFail
             ELSE IF Head(e.rest) = Punct(",")
                    THEN ParseMembers(Tail(e.rest), DictSet(acc, toks[1].lexeme, e.val))
             ELSE IF Head(e.rest) = Punct("}")
                    THEN ParseOk(PyDict(DictSet(acc, toks[1].lexeme, e.val)), Tail(e.rest))
             ELSE ParseFail

\* json.loads(raw_text): the whole body must be one value
Loads(toks) ==
    LET r == ParseValue(toks)
    IN  IF r.ok /\ r.rest = <<>> THEN [ok |-> TRUE, val |-> r.val] ELSE ParseFail

\* ---- what the service may answer
RECURSIVE Dumps(_), DumpsItems(_), DumpsMembers(_)

\* the JSON text of a value
Dumps(val) ==
    CASE val.t = "none" -> <<LitTok("null")>>
      [] val.t = "bool" -> <<LitTok(IF val.bool THEN "true" ELSE "false")>>
      [] val.t = "int" -> <<NumTok(val.int)>>
      [] val.t = "str" -> <<StrTok(val.str)>>
      [] val.t = "list" -> <<Punct("[")>> \o DumpsItems(val.items) \o <<Punct("]")>>
      [] val.t = "dict" ->
           <<Punct("{")>> \o DumpsMembers(val.map) \o <<Punct("}")>>

DumpsItems(items) ==
    IF items = <<>> THEN <<>>
    ELSE IF Len(items) = 1 THEN Dumps(items[1])
    ELSE Dumps(items[1]) \o <<Punct(",")>> \o DumpsItems(Tail(items))

DumpsMembers(d) ==
    IF d = <<>> THEN <<>>
    ELSE LET m == <<StrTok(d[1][1]), Punct(":")>> \o Dumps(d[1][2])
         IN  IF Len(d) = 1 THEN m ELSE m \o <<Punct(",")>> \o DumpsMembers(Tail(d))

FieldNames == <<"summary", "flashcards", "quiz">>

ListItems == {PyStr("q"), PyDict(<<<<"front", PyStr("q")>>>>)}
ListValues == {PyList(s) : s \in SeqsUpTo(ListItems, MaxListLen)}
ScalarValues == {PyNone, PyBool(TRUE), PyInt(1), PyStr(""), PyStr("s"), PyStr("summary")}
FieldValues == {PyNone, PyInt(1), PyStr(""), PyStr("s")} \cup ListValues

\* the items of a dict that has each field with the value chosen for it, or not at all
Absent == Py("absent", "", 0, FALSE, <<>>, <<>>)
RECURSIVE Items(_, _)
Items(choice, i) ==
    IF i > Len(FieldNames) THEN <<>>
    ELSE IF choice[i] = Absent THEN Items(choice, i + 1)
    ELSE <<<<FieldNames[i], choice[i]>>>> \o Items(choice, i + 1)

\* objects with any of the three fields, with or without an extra key
ObjectsOver(values) ==
    {PyDict(Items(c, 1)) : c \in [1..Len(FieldNames) -> values \cup {Absent}]}
      \cup {PyDict(<<<<"title", PyStr("t")>>>> \o Items(c, 1)) :
              c \in [1..Len(FieldNames) -> values \cup {Absent}]}

DictValues == ObjectsOver(FieldValues)

JsonValues == ScalarValues \cup ListValues \cup {PyList(<<PyStr("summary")>>)} \cup DictValues

Damages == {"none", "truncated", "fenced", "trailing"}

\* the body the service sends for a value it meant to send
Body(val, how) ==
    LET j == Dumps(val)
    IN  CASE how = "none" -> j
          [] how = "truncated" -> SubSeq(j, 1, Len(j) - 1)
          [] how = "fenced" -> <<FenceTok>> \o j \o <<FenceTok>>
          [] how = "trailing" -> j \o <<Punct(",")>>

\* a response object: .text is a str, is None, or is not there
Answers(values) ==
    {[text |-> Body(val, d), attr |-> "str", meant |-> val, damage |-> d] :
        val \in values, d \in Damages}
      \cup {[text |-> <<>>, attr |-> a, meant |-> PyNone, damage |-> "none"] :
              a \in {"none", "missing", "str"}}

ModelA == "gemini-flash-latest"
ModelB == "gemini-pro-latest"
ModelC == "gemini-2.0-flash-lite-preview-02-05"
ModelErrorMsgs == {"429 quota exceeded", "404 model not found"}
ModelError(model, msg) == LibError("GoogleAPIError", msg, model)
NoResponse == [text |-> <<>>, attr |-> "unset"]

ApiKeys == {"unset", "", "k3y"}

\* getattr(response, "text", "") or ""
RawText(resp) == IF resp.attr = "str" THEN resp.text ELSE <<>>

\* a field check that forgets the isinstance test
NormalizeFieldPresenceOnly(d, key, type, default) ==
    IF ~Has(d, key) THEN DictSet(d, key, default) ELSE d

\* lines 148-155, one field: if key not in data or not isinstance(data[key], type)
NormalizeField(d, key, type, default) ==
    IF ~Has(d, key) \/ Lookup(d, key).t # type THEN DictSet(d, key, default) ELSE d

\* the TypeError the membership test or the subscript raises on a non-dict
\* (strings of the model either are the key or do not contain it)
NonDictError(data) ==
    CASE data.t = "list" -> "list indices must be integers or slices, not str"
      [] data.t = "str" -> IF data.str = "summary"
                             THEN "string indices must be integers, not 'str'"
                             ELSE "'str' object does not support item assignment"
      [] data.t = "int" -> "argument of type 'int' is not iterable"
      [] data.t = "bool" -> "argument of type 'bool' is not iterable"
      [] data.t = "none" -> "argument of type 'NoneType' is not iterable"

\* lines 147-157: schema normalization of the parsed data
Normalize(data) ==
    IF data.t # "dict"
      THEN [ok |-> FALSE, exc |-> Raise("TypeError", NonDictError(data), NoCause)]
      ELSE [ok |-> TRUE,
            val |-> PyDict(NormalizeField(
                             NormalizeField(
                               NormalizeField(data.map, "summary", "str", PyStr("")),
                               "flashcards", "list", PyList(<<>>)),
                             "quiz", "list", PyList(<<>>)))]

\* lines 133-157: what generate_study_material does with the response
Finish(resp, err) ==
    IF resp = NoResponse
      THEN [ok |-> FALSE, exc |-> Raise("RuntimeError", GenerationMsg, err)]
    ELSE IF RawText(resp) = <<>>
      THEN [ok |-> FALSE, exc |-> Raise("ValueError", EmptyResponseMsg, NoCause)]
    ELSE IF ~Loads(RawText(resp)).ok
      THEN [ok |-> FALSE,
            exc |-> Raise("ValueError", MalformedMsg, LibError("JSONDecodeError", "", ""))]
    ELSE Normalize(Loads(RawText(resp)).val)

\* a start that never looks at the credential
GenerateStartNoKeyCheck ==
    /\ pc = "generate_start"
    /\ invoked' = invoked \cup {"generator"}
    /\ response' = NoResponse
    /\ last_error' = NoCause
    /\ \E key \in ApiKeys : api_key' = key
    /\ pc' = "try_primary"
    /\ UNCHANGED <<viewVars, extractVars, study_material, calls, sent, exc>>

\* lines 53-57 and 97-98: read the credential, configure the client
GenerateStart ==
    /\ pc = "generate_start"
    /\ invoked' = invoked \cup {"generator"}
    /\ response' = NoResponse
    /\ last_error' = NoCause
    /\ \E key \in ApiKeys :
         /\ api_key' = key
         /\ IF key \in {"unset", ""}
              THEN /\ pc' = "generate_raised"
                   /\ exc' = Raise("RuntimeError", ConfigurationMsg, NoCause)
              ELSE /\ pc' = "try_primary"
                   /\ exc' = exc
    /\ UNCHANGED <<viewVars, extractVars, study_material, calls, sent>>

\* one model.generate_content call: it returns an answer or it raises
\* (calls logs each call as <<model, outcome, error message, body, .text kind>>)
CallModel(model, answers, msgs, onError) ==
    /\ \/ \E a \in answers :
            /\ response' = [text |-> a.text, attr |-> a.attr]
            /\ sent' = [meant |-> a.meant, damage |-> a.damage]
            /\ calls' = Append(calls, <<model, "returned", "", a.text, a.attr>>)
            /\ last_error' = last_error
            /\ pc' = "attempts_done"
       \/ \E m \in msgs :
            /\ last_error' = ModelError(model, m)
            /\ calls' = Append(calls, <<model, "raised", m, <<>>, "">>)
            /\ pc' = onError
            /\ UNCHANGED <<response, sent>>
    /\ UNCHANGED <<viewVars, extractVars, api_key, study_material, exc, invoked>>

\* a primary attempt whose fallback is not nested in its except clause
TryPrimaryFallsThrough(answers, msgs) ==
    /\ pc = "try_primary"
    /\ pc' = "try_fallback"
    /\ \/ \E a \in answers :
            /\ response' = [text |-> a.text, attr |-> a.attr]
            /\ sent' = [meant |-> a.meant, damage |-> a.damage]
            /\ calls' = Append(calls, <<ModelA, "returned", "", a.text, a.attr>>)
            /\ last_error' = last_error
       \/ \E m \in msgs :
            /\ last_error' = ModelError(ModelA, m)
            /\ calls' = Append(calls, <<ModelA, "raised", m, <<>>, "">>)
            /\ UNCHANGED <<response, sent>>
    /\ UNCHANGED <<viewVars, extractVars, api_key, study_material, exc, invoked>>

\* lines 100-109
TryPrimary(answers, msgs) ==
    /\ pc = "try_primary"
    /\ CallModel(ModelA, answers, msgs, "try_fallback")

\* lines 111-120
TryFallback(answers, msgs) ==
    /\ pc = "try_fallback"
    /\ CallModel(ModelB, answers, msgs, "try_latest")

\* a last attempt that does not record its own error
TryLatestKeepsError(answers, msgs) ==
    /\ pc = "try_latest"
    /\ pc' = "attempts_done"
    /\ \/ \E a \in answers :
            /\ response' = [text |-> a.text, attr |-> a.attr]
            /\ sent' = [meant |-> a.meant, damage |-> a.damage]
            /\ calls' = Append(calls, <<ModelC, "returned", "", a.text, a.attr>>)
       \/ \E m \in msgs :
            /\ calls' = Append(calls, <<ModelC, "raised", m, <<>>, "">>)
            /\ UNCHANGED <<response, sent>>
    /\ UNCHANGED <<viewVars, extractVars, api_key, study_material, exc, invoked, last_error>>

\* lines 122-131
TryLatest(answers, msgs) ==
    /\ pc = "try_latest"
    /\ CallModel(ModelC, answers, msgs, "attempts_done")

\* lines 133-157
GenerateFinish ==
    /\ pc = "attempts_done"
    /\ LET r == Finish(response, last_error)
       IN  IF r.ok
             THEN /\ pc' = "generate_returned"
                  /\ study_material' = r.val
                  /\ exc' = exc
             ELSE /\ pc' = "generate_raised"
                  /\ exc' = r.exc
                  /\ study_material' = study_material
    /\ UNCHANGED <<viewVars, extractVars, api_key, response, last_error, calls, sent, invoked>>

\* =================================================================== handler
NameChars == {".", "p", "d", "f", "P", "D", "F", "x"}
Names == SeqsUpTo(NameChars, MaxNameLen) \ {<<>>}
NoFile == [present |-> FALSE, name |-> <<>>]
Requests == {[method |-> "GET", file |-> NoFile], [method |-> "POST", file |-> NoFile]}
              \cup {[method |-> "POST", file |-> [present |-> TRUE, name |-> n]] : n \in Names}

LowerChar(c) == CASE c = "P" -> "p" [] c = "D" -> "d" [] c = "F" -> "f" [] OTHER -> c

\* a name compared as it was typed
LowerNoop(s) == s

\* str.lower()
Lower(s) == [i \in 1..Len(s) |-> LowerChar(s[i])]

\* str.endswith(suffix)
EndsWith(s, suffix) ==
    /\ Len(s) >= Len(suffix)
    /\ SubSeq(s, Len(s) - Len(suffix) + 1, Len(s)) = suffix

\* truth value of request.FILES.get("pdf_file")
Truthy(file) == file.present /\ file.name # <<>>

\* study_material.get(key, default)
Get(d, key, default) == IF Has(d.map, key) THEN Lookup(d.map, key) ELSE default

\* str(exc) or "Something went wrong while processing the PDF."
ErrorText(e) == IF e.msg = "" THEN FallbackMsg ELSE e.msg

EmptyContext == [summary |-> PyNone, flashcards |-> PyList(<<>>),
                 quiz |-> PyList(<<>>), error |-> PyNone]

\* lines 16-23: the method and the two validation checks
Validate ==
    /\ pc = "dispatch"
    /\ IF request.method # "POST"
         THEN /\ pc' = "render"
              /\ context' = context
       ELSE IF ~Truthy(request.file)
         THEN /\ pc' = "render"
              /\ context' = [context EXCEPT !.error = PyStr(NoFileMsg)]
       ELSE IF ~EndsWith(Lower(request.file.name), <<".", "p", "d", "f">>)
         THEN /\ pc' = "render"
              /\ context' = [context EXCEPT !.error = PyStr(NotPdfMsg)]
       ELSE /\ pc' = "extract_open"
            /\ context' = context
    /\ UNCHANGED <<request, rendered, extractVars, generateVars, exc, invoked>>

\* line 26: the extractor returned, its locals are gone, the generator is called
CallGenerate ==
    /\ pc = "extract_returned"
    /\ pc' = "generate_start"
    /\ pdf' = [ok |-> FALSE]
    /\ text_chunks' = <<>>
    /\ page_no' = 0
    /\ UNCHANGED <<viewVars, generateVars, text, exc, invoked>>

\* lines 27-29
ShowResults ==
    /\ pc = "generate_returned"
    /\ pc' = "render"
    /\ context' = [context EXCEPT
                     !.summary = Get(study_material, "summary", PyNone),
                     !.flashcards = Get(study_material, "flashcards", PyList(<<>>)),
                     !.quiz = Get(study_material, "quiz", PyList(<<>>))]
    /\ UNCHANGED <<request, rendered, extractVars, generateVars, exc, invoked>>

\* an except clause that swallows the exception
ShowErrorSilent ==
    /\ pc \in {"extract_raised", "generate_raised"}
    /\ pc' = "render"
    /\ UNCHANGED <<request, context, rendered, extractVars, generateVars, exc, invoked>>

\* lines 30-31
ShowError ==
    /\ pc \in {"extract_raised", "generate_raised"}
    /\ pc' = "render"
    /\ context' = [context EXCEPT !.error = PyStr(ErrorText(exc))]
    /\ UNCHANGED <<request, rendered, extractVars, generateVars, exc, invoked>>

\* line 33
Render ==
    /\ pc = "render"
    /\ pc' = "done"
    /\ rendered' = context
    /\ UNCHANGED <<request, context, extractVars, generateVars, exc, invoked>>

\* ============================================================ specifications
NoPdf == [ok |-> FALSE]
NothingSent == [meant |-> PyNone, damage |-> "none"]

\* the locals of the three functions before any of them ran
Fresh ==
    /\ context = EmptyContext
    /\ rendered = PyNone
    /\ pdf = NoPdf
    /\ text_chunks = <<>>
    /\ page_no = 0
    /\ api_key = "unset"
    /\ response = NoResponse
    /\ last_error = NoCause
    /\ study_material = PyNone
    /\ calls = <<>>
    /\ sent = NothingSent
    /\ exc = NoExc

\* ---- one request to dashboard
SampleOutcomes == {[kind |-> "raises"], [kind |-> "none"],
                   [kind |-> "text", text |-> <<" ", "a">>],
                   [kind |-> "text", text |-> <<"b">>]}
SampleDocuments == {[ok |-> FALSE]}
                     \cup {[ok |-> TRUE, pages |-> p] : p \in SeqsUpTo(SampleOutcomes, MaxPages)}
SampleValues ==
    {PyList(<<>>), PyInt(1)}
      \cup {v \in ObjectsOver({PyStr("s"), PyList(<<>>)}) : ~Has(v.map, "title")}
SampleAnswers == {a \in Answers(SampleValues) : a.damage \in {"none", "truncated"}}
SampleErrorMsgs == {"429 quota exceeded"}

Init ==
    /\ pc = "dispatch"
    /\ request \in Requests
    /\ invoked = {}
    /\ text = <<>>
    /\ Fresh

Next ==
    \/ Validate
    \/ ExtractOpen(SampleDocuments)
    \/ ExtractPage
    \/ ExtractFinish
    \/ CallGenerate
    \/ GenerateStart
    \/ TryPrimary(SampleAnswers, SampleErrorMsgs)
    \/ TryFallback(SampleAnswers, SampleErrorMsgs)
    \/ TryLatest(SampleAnswers, SampleErrorMsgs)
    \/ GenerateFinish
    \/ ShowResults
    \/ ShowError
    \/ Render

Spec == Init /\ [][Next]_vars

\* ---- extract_text_from_pdf called on its own
InitExtract ==
    /\ pc = "extract_open"
    /\ request = [method |-> "POST", file |-> [present |-> TRUE, name |-> <<"x", ".", "p", "d", "f">>]]
    /\ invoked = {}
    /\ text = <<>>
    /\ Fresh

NextExtract ==
    \/ ExtractOpen(Documents)
    \/ ExtractPage
    \/ ExtractFinish

SpecExtract == InitExtract /\ [][NextExtract]_vars

\* ---- generate_study_material called on its own
InitGenerate ==
    /\ pc = "generate_start"
    /\ request = [method |-> "POST", file |-> [present |-> TRUE, name |-> <<"x", ".", "p", "d", "f">>]]
    /\ invoked = {"extractor"}
    /\ text \in {<<"a">>, <<"a", "\n", "\n", "b">>}
    /\ Fresh

AllAnswers == Answers(JsonValues)

NextGenerate ==
    \/ GenerateStart
    \/ TryPrimary(AllAnswers, ModelErrorMsgs)
    \/ TryFallback(AllAnswers, ModelErrorMsgs)
    \/ TryLatest(AllAnswers, ModelErrorMsgs)
    \/ GenerateFinish

SpecGenerate == InitGenerate /\ [][NextGenerate]_vars

\* ================================================================ properties
\* ---- extractor (SpecExtract)
ExtractDone == pc \in {"extract_returned", "extract_raised"}

\* a text with nothing but whitespace in it (the empty text included)
Blank(s) == \A i \in 1..Len(s) : s[i] \in Whitespace

\* a non-blank text from its first to its last non-whitespace character
Trimmed(s) ==
    LET first == CHOOSE i \in 1..Len(s) : s[i] \notin Whitespace /\ \A j \in 1..(i - 1) : s[j] \in Whitespace
        last == CHOOSE i \in 1..Len(s) : s[i] \notin Whitespace /\ \A j \in (i + 1)..Len(s) : s[j] \in Whitespace
    IN  [i \in 1..(last - first + 1) |-> s[first + i - 1]]

\* texts laid out one after the other with a blank line between neighbours
RECURSIVE BlankLineSeparated(_)
BlankLineSeparated(ts) ==
    IF Len(ts) = 0 THEN <<>>
    ELSE IF Len(ts) = 1 THEN ts[1]
    ELSE BlankLineSeparated(SubSeq(ts, 1, Len(ts) - 1)) \o <<"\n", "\n">> \o ts[Len(ts)]

HasText(page) == page.kind = "text" /\ ~Blank(page.text)
NonEmptyText(page) == page.kind = "text" /\ page.text # <<>>

\* the pages that neither failed nor came out blank, in page order
RECURSIVE GoodPages(_)
GoodPages(pages) ==
    IF pages = <<>> THEN <<>>
    ELSE IF HasText(pages[Len(pages)])
      THEN Append(GoodPages(SubSeq(pages, 1, Len(pages) - 1)), pages[Len(pages)])
      ELSE GoodPages(SubSeq(pages, 1, Len(pages) - 1))

RawTexts(pages) == [i \in 1..Len(pages) |-> pages[i].text]
TrimmedTexts(pages) == [i \in 1..Len(pages) |-> Trimmed(pages[i].text)]

\* C5 as stated: when every page extracts non-empty text, the output is the
\* page texts themselves joined in page order by a blank line.
C5_AsStated ==
    (pc = "extract_returned" /\ \A i \in 1..Len(pdf.pages) : NonEmptyText(pdf.pages[i]))
      => text = BlankLineSeparated(RawTexts(pdf.pages))

\* C5 amended: when every page extracts text with a non-whitespace character
\* in it, the output is the page texts, each without its leading and trailing
\* whitespace, joined in page order by a blank line.
C5_StrippedTextsJoined ==
    (pc = "extract_returned" /\ \A i \in 1..Len(pdf.pages) : HasText(pdf.pages[i]))
      => text = BlankLineSeparated(TrimmedTexts(pdf.pages))

C5_Witness ==
    /\ pc = "extract_returned"
    /\ Len(pdf.pages) = 2
    /\ \A i \in 1..2 : HasText(pdf.pages[i])
    /\ pdf.pages[1].text # pdf.pages[2].text
    /\ \E i \in 1..2 : pdf.pages[i].text # Trimmed(pdf.pages[i].text)

\* C6 as stated: failing pages never abort the document; with at least one
\* page of non-blank text the result is exactly the texts of the non-failing,
\* non-blank pages in page order.
C6_AsStated ==
    (ExtractDone /\ pdf.ok /\ \E i \in 1..Len(pdf.pages) : HasText(pdf.pages[i]))
      => /\ pc = "extract_returned"
         /\ text = BlankLineSeparated(RawTexts(GoodPages(pdf.pages)))

\* C6 amended: the same, the texts being those of the non-failing, non-blank
\* pages without their leading and trailing whitespace.
C6_FailedPagesOmitted ==
    (ExtractDone /\ pdf.ok /\ \E i \in 1..Len(pdf.pages) : HasText(pdf.pages[i]))
      => /\ pc = "extract_returned"
         /\ text = BlankLineSeparated(TrimmedTexts(GoodPages(pdf.pages)))

C6_Witness ==
    /\ pc = "extract_returned"
    /\ Len(pdf.pages) = 2
    /\ pdf.pages[1].kind = "raises"
    /\ HasText(pdf.pages[2])

\* C7: a stream that opens as a PDF fails with "No extractable text" exactly
\* when every page is blank, None or fails (no pages included), never with
\* the read error, and a returned text is never empty.
C7_EmptyContentExactly ==
    (ExtractDone /\ pdf.ok)
      => /\ (pc = "extract_raised" /\ exc.type = "ValueError" /\ exc.msg = EmptyContentMsg)
              <=> (\A i \in 1..Len(pdf.pages) : ~HasText(pdf.pages[i]))
         /\ pc = "extract_raised" => exc.msg # ReadErrorMsg
         /\ pc = "extract_returned" => text # <<>> /\ ~exc.raised

C7_Witness ==
    /\ pc = "extract_raised"
    /\ exc.msg = EmptyContentMsg
    /\ Len(pdf.pages) = 2
    /\ pdf.pages[1].kind = "raises"
    /\ pdf.pages[2].kind = "text"
    /\ pdf.pages[2].text # <<>>

\* ---- generator (SpecGenerate)
GenerateDone == pc \in {"generate_returned", "generate_raised"}
Order == <<ModelA, ModelB, ModelC>>
LastCall == calls[Len(calls)]
SomeCallReturned == calls # <<>> /\ LastCall[2] = "returned"
AllCallsRaised == Len(calls) = 3 /\ \A i \in 1..3 : calls[i][2] = "raised"

\* C1: the models are called in the order A, B, C, each only after all the
\* earlier ones raised; the first call that returns supplies the response
\* that is parsed and normalized, and nothing is called after it.
C1_FixedOrderFirstSuccess ==
    /\ Len(calls) <= 3
    /\ \A i \in 1..Len(calls) : calls[i][1] = Order[i]
    /\ \A i \in 1..(Len(calls) - 1) : calls[i][2] = "raised"
    /\ SomeCallReturned
         => /\ pc \in {"attempts_done", "generate_returned", "generate_raised"}
            /\ response.text = LastCall[4]
            /\ response.attr = LastCall[5]
    /\ pc = "generate_returned"
         => /\ SomeCallReturned
            /\ study_material = Normalize(Loads(LastCall[4]).val).val

C1_Witness ==
    /\ pc = "generate_returned"
    /\ Len(calls) = 2
    /\ calls[1] = <<ModelA, "raised", "429 quota exceeded", <<>>, "">>
    /\ calls[2][1] = ModelB
    /\ calls[2][2] = "returned"

\* C2: generation fails with "All Gemini model attempts failed" exactly when
\* all three calls raised, and the cause it carries is the error of model C.
C2_AllFailedCarriesLastError ==
    GenerateDone
      => /\ AllCallsRaised
              <=> (pc = "generate_raised" /\ exc.type = "RuntimeError" /\ exc.msg = GenerationMsg)
         /\ AllCallsRaised => exc.cause = ModelError(ModelC, calls[3][3])

C2_Witness ==
    /\ pc = "generate_raised"
    /\ exc.msg = GenerationMsg
    /\ calls[1][3] # calls[3][3]
    /\ calls[2][3] # calls[3][3]

FieldType(key) == IF key = "summary" THEN "str" ELSE "list"
FieldDefault(key) == IF key = "summary" THEN PyStr("") ELSE PyList(<<>>)
WellTyped(d, key) == Has(d, key) /\ Lookup(d, key).t = FieldType(key)

\* C8: for a response that is a JSON object, each of summary, flashcards and
\* quiz comes back as parsed when it has the expected type and as its default
\* otherwise, whatever the other two are.
C8_FieldsIndependent ==
    (GenerateDone /\ SomeCallReturned /\ sent.damage = "none" /\ sent.meant.t = "dict")
      => /\ pc = "generate_returned"
         /\ \A i \in 1..Len(FieldNames) :
              /\ Has(study_material.map, FieldNames[i])
              /\ Lookup(study_material.map, FieldNames[i])
                   = IF WellTyped(sent.meant.map, FieldNames[i])
                       THEN Lookup(sent.meant.map, FieldNames[i])
                       ELSE FieldDefault(FieldNames[i])

C8_Witness ==
    /\ pc = "generate_returned"
    /\ ~Has(sent.meant.map, "flashcards")
    /\ Lookup(study_material.map, "flashcards") = PyList(<<>>)
    /\ Lookup(study_material.map, "summary") = PyStr("s")
    /\ Lookup(study_material.map, "quiz") = PyList(<<PyStr("q")>>)

\* C9 as stated: once a call returned, an empty body fails with the empty
\* response error, a non-empty body that is not JSON with the invalid JSON
\* error, and every non-empty JSON body, whatever its top-level type, gives
\* a study material with a text summary and list flashcards and quiz.
C9_AsStated ==
    (GenerateDone /\ SomeCallReturned)
      => /\ RawText(response) = <<>>
              => pc = "generate_raised" /\ exc.type = "ValueError" /\ exc.msg = EmptyResponseMsg
         /\ (RawText(response) # <<>> /\ sent.damage # "none")
              => pc = "generate_raised" /\ exc.type = "ValueError" /\ exc.msg = MalformedMsg
         /\ (RawText(response) # <<>> /\ sent.damage = "none")
              => /\ pc = "generate_returned"
                 /\ Lookup(study_material.map, "summary").t = "str"
                 /\ Lookup(study_material.map, "flashcards").t = "list"
                 /\ Lookup(study_material.map, "quiz").t = "list"

\* ---- handler (Spec)
Answered == pc \in {"render", "done"}

ResultsEmpty ==
    /\ context.summary = PyNone
    /\ context.flashcards = PyList(<<>>)
    /\ context.quiz = PyList(<<>>)

\* the name's last four characters are ".pdf" in any mix of cases
PdfName(name) ==
    /\ Len(name) >= 4
    /\ name[Len(name) - 3] = "."
    /\ name[Len(name) - 2] \in {"p", "P"}
    /\ name[Len(name) - 1] \in {"d", "D"}
    /\ name[Len(name)] \in {"f", "F"}

\* C3: a POST never shows an error together with results: when the extractor
\* or the generator raised, the error is the exception's message (the generic
\* message for an empty one) and the results stay None, [] and []; when both
\* returned, the results are the generator's and there is no error.
C3_ErrorOrResults ==
    request.method = "POST"
      => /\ context.error # PyNone => ResultsEmpty
         /\ (Answered /\ exc.raised)
              => /\ context.error = PyStr(IF exc.msg = "" THEN FallbackMsg ELSE exc.msg)
                 /\ ResultsEmpty
         /\ (Answered /\ ~exc.raised /\ "generator" \in invoked)
              => /\ context.error = PyNone
                 /\ context.summary = Lookup(study_material.map, "summary")
                 /\ context.flashcards = Lookup(study_material.map, "flashcards")
                 /\ context.quiz = Lookup(study_material.map, "quiz")
         /\ pc = "done" => rendered = context

C3_Witness ==
    /\ pc = "done"
    /\ request.method = "POST"
    /\ SomeCallReturned
    /\ exc.msg = MalformedMsg
    /\ rendered.error = PyStr(MalformedMsg)

\* C4: a POST without a file answers "Please upload a PDF file.", one whose
\* file name does not end in ".pdf" (in any case) answers "Only PDF files are
\* supported."; neither calls the extractor or the generator nor shows
\* results; a name that does end in ".pdf" goes on to extraction.
C4_ValidationStops ==
    (request.method = "POST" /\ pc # "dispatch")
      => /\ ~request.file.present
              => context.error = PyStr(NoFileMsg) /\ invoked = {} /\ calls = <<>> /\ ResultsEmpty
         /\ (request.file.present /\ ~PdfName(request.file.name))
              => context.error = PyStr(NotPdfMsg) /\ invoked = {} /\ calls = <<>> /\ ResultsEmpty
         /\ (request.file.present /\ PdfName(request.file.name))
              => /\ context.error \notin {PyStr(NoFileMsg), PyStr(NotPdfMsg)}
                 /\ pc = "extract_open" \/ "extractor" \in invoked

C4_Witness ==
    /\ pc = "done"
    /\ request.file.present
    /\ request.file.name = <<"x", "p", "d", "f">>
    /\ rendered.error = PyStr(NotPdfMsg)

\* C10: a model is called only after the file passed validation, the
\* extractor returned a non-empty text and the credential was found; without
\* a credential generation fails before any call; a failed extraction means
\* no generator; there are at most three calls, no model twice.
C10_CallsOnlyAfterChecks ==
    /\ calls # <<>>
         => /\ request.method = "POST"
            /\ request.file.present
            /\ PdfName(request.file.name)
            /\ "extractor" \in invoked
            /\ text # <<>>
            /\ api_key \notin {"unset", ""}
    /\ ("generator" \in invoked /\ api_key \in {"unset", ""})
         => /\ calls = <<>>
            /\ pc \in {"generate_raised", "render", "done"}
            /\ exc.type = "RuntimeError"
            /\ exc.msg = ConfigurationMsg
    /\ exc.msg \in {ReadErrorMsg, EmptyContentMsg} => "generator" \notin invoked /\ calls = <<>>
    /\ Len(calls) <= 3
    /\ \A i, j \in 1..Len(calls) : i # j => calls[i][1] # calls[j][1]

C10_Witness ==
    /\ pc = "done"
    /\ Len(calls) = 3
    /\ calls[3][2] = "returned"

====
